---- MODULE Spec2Model ----
(***************************************************************************)
(* Model of migrate-safe.ts: the "supervised migration" script that        *)
(* generates a Prisma migration, strips blacklisted lines from the         *)
(* generated migration.sql and then runs `prisma migrate deploy`.          *)
(*                                                                         *)
(* Text is a sequence of one-character strings; "\n" is the line feed the  *)
(* script splits and joins on.  File and directory names are sequences of  *)
(* code units (naturals) compared as JavaScript compares strings.          *)
(***************************************************************************)
EXTENDS Integers, Sequences, FiniteSets, TLC

\* ------------------------------------------------------------------ bounds
MaxLines == 2
MaxPrior == 2
MaxLen == 5
MaxEntries == 2

\* ------------------------------------------------------------ text helpers
\* String.prototype.includes: sub occurs in line as a contiguous substring.
Includes(line, sub) ==
    \E i \in 0..(Len(line) - Len(sub)) : SubSeq(line, i + 1, i + Len(sub)) = sub

\* String.prototype.split('\n'): always at least one (possibly empty) piece.
\* (The remainder is bound once, as a value, before the recursive call.)
RECURSIVE Split(_)
Split(s) ==
    IF \A i \in 1..Len(s) : s[i] # "\n"
    THEN << s >>
    ELSE LET k == CHOOSE i \in 1..Len(s) :
                    s[i] = "\n" /\ \A j \in 1..(i - 1) : s[j] # "\n"
         IN  CHOOSE r \in { << SubSeq(s, 1, k - 1) >> \o Split(rest) :
                              rest \in { SubSeq(s, k + 1, Len(s)) } } : TRUE

\* Array.prototype.join('\n'): the empty array joins to the empty string.
RECURSIVE Join(_)
Join(lines) ==
    IF Len(lines) = 0 THEN << >>
    ELSE IF Len(lines) = 1 THEN lines[1]
    ELSE lines[1] \o << "\n" >> \o Join(Tail(lines))

\* Variant: an entry removes only the lines equal to it.
FilterLinesExact(lines, lineToRemove) ==
    SelectSeq(lines, LAMBDA line : line # lineToRemove)

\* Variant: an entry removes only the first line containing it.
FilterFirstMatch(lines, lineToRemove) ==
    IF \E i \in 1..Len(lines) : Includes(lines[i], lineToRemove)
    THEN LET k == CHOOSE i \in 1..Len(lines) :
                    /\ Includes(lines[i], lineToRemove)
                    /\ \A j \in 1..(i - 1) : ~Includes(lines[j], lineToRemove)
         IN  SubSeq(lines, 1, k - 1) \o SubSeq(lines, k + 1, Len(lines))
    ELSE lines

\* lines.filter(line => !line.includes(lineToRemove))
FilterLines(lines, lineToRemove) ==
    SelectSeq(lines, LAMBDA line : ~Includes(line, lineToRemove))

\* ---------------------------------------------------------------- sanitizer
\* Variant: an entry that removes lines adds one to the count, however many.
SanitizeStepCountOne(acc, lineToRemove) ==
    LET lines == Split(acc.content)
        filteredLines == SelectSeq(lines, LAMBDA line : ~Includes(line, lineToRemove))
    IN  IF Len(lines) > Len(filteredLines)
        THEN [content |-> Join(filteredLines), count |-> acc.count + 1]
        ELSE acc

\* One iteration of linesToRemove.forEach over the accumulator
\* acc = [content |-> migrationContent, count |-> linesRemovedCount].
SanitizeStep(acc, lineToRemove) ==
    LET lines == Split(acc.content)
        originalLength == Len(lines)
        filteredLines == FilterLines(lines, lineToRemove)
    IN  IF originalLength > Len(filteredLines)
        THEN [content |-> Join(filteredLines),
              count |-> acc.count + (originalLength - Len(filteredLines))]
        ELSE acc

\* Variant: the loop stops after the first entry that removed a line.
RECURSIVE SanitizeLoopFirstHit(_, _)
SanitizeLoopFirstHit(acc, blacklist) ==
    IF Len(blacklist) = 0 THEN acc
    ELSE LET next == SanitizeStep(acc, Head(blacklist))
         IN  IF next.count > acc.count THEN next
             ELSE SanitizeLoopFirstHit(next, Tail(blacklist))

\* The whole forEach loop, entry after entry, left to right.
RECURSIVE SanitizeLoop(_, _)
SanitizeLoop(acc, blacklist) ==
    IF Len(blacklist) = 0 THEN acc
    ELSE CHOOSE r \in { SanitizeLoop(next, Tail(blacklist)) :
                         next \in { SanitizeStep(acc, Head(blacklist)) } } : TRUE

\* let migrationContent = <file>; let linesRemovedCount = 0; forEach ...
Sanitize(content, blacklist) ==
    SanitizeLoop([content |-> content, count |-> 0], blacklist)

\* The configured blacklist: two statements, abstracted to two-letter texts.
linesToRemove == << << "F", "K" >>, << "I", "X" >> >>

\* -------------------------------------------------------------------- names
\* JavaScript string order (by code unit): a < b.
LexLess(a, b) ==
    \E k \in 1..(Len(b)) :
        /\ \A j \in 1..(k - 1) : j <= Len(a) /\ a[j] = b[j]
        /\ (k > Len(a) \/ a[k] < b[k])

\* Array.prototype.sort() on the entry names: ascending by code unit.
RECURSIVE SortAsc(_)
SortAsc(names) ==
    IF names = {} THEN << >>
    ELSE LET m == CHOOSE x \in names : \A y \in names : x = y \/ LexLess(x, y)
         IN  CHOOSE r \in { << m >> \o SortAsc(rest) :
                              rest \in { names \ {m} } } : TRUE

\* Variant: the sorted list is not reversed.
ReverseNot(seq) == seq

\* Array.prototype.reverse()
Reverse(seq) == [i \in 1..Len(seq) |-> seq[Len(seq) + 1 - i]]

\* migration_lock.toml, the marker entry ("m" sorts after every digit).
MarkerName == << 5 >>

\* Directory names that may occur under the migrations root: timestamp-like
\* names (units 1, 2), one of them a prefix of another, and a name that sorts
\* after the marker (unit 7).
DirNames == { << 1 >>, << 1, 2 >>, << 2 >>, << 7 >> }

\* No name: undefined (an entry name is never empty).
NoName == << >>

\* Lines the generator may emit: a harmless statement, the first blacklisted
\* statement, the second one with leading text, and a line holding both.
GenLines == { << "c" >>, << "F", "K" >>, << "c", "I", "X" >>,
              << "F", "K", "I", "X" >> }

\* All sequences over S of length 0..n.
RECURSIVE SeqsUpTo(_, _)
SeqsUpTo(S, n) ==
    IF n = 0 THEN { << >> }
    ELSE LET shorter == SeqsUpTo(S, n - 1)
         IN  shorter \cup { Append(q, x) : q \in shorter, x \in S }

\* Contents of a freshly generated migration.sql.
GenScripts == { Join(ls) : ls \in SeqsUpTo(GenLines, MaxLines) }

\* Contents of the scripts of migrations that exist before the run.
PriorScripts == { << "c" >>, << "F", "K" >> }

\* -------------------------------------------------------------------- state
VARIABLES
    argv,                    \* process.argv from index 2 on
    pc,                      \* position of main()
    exitCode,                \* process exit code, -1 while running
    err,                     \* how the run failed, "" if it has not
    rootExists,              \* the migrations root directory exists
    markerPresent,           \* migration_lock.toml is in the root
    scripts,                 \* migration directory name -> its migration.sql
    console,                 \* the "[Step n/4]" lines printed so far
    cmdLog,                  \* commands handed to execSync, with their status
    fsLog,                   \* fs calls made by this process
    allMigrations,           \* main's local
    latestMigrationDirName,  \* main's local
    migrationContent,        \* main's local
    linesRemovedCount,       \* main's local
    originalContent,         \* what readFileSync returned
    generated,               \* the directory the generator created in this run
    rootAtStart,             \* the migrations root when main() was entered
    applied,                 \* migrations the database has recorded as applied
    runs,                    \* invocations of the tool so far
    tS, tB, tOnce, tTwice, tPhase,  \* sanitizer applied to drawn inputs
    tOrder, tOther           \* the blacklist in another order, and its result

runVars == << argv, pc, exitCode, err, rootExists, markerPresent, scripts,
              console, cmdLog, fsLog, allMigrations, latestMigrationDirName,
              migrationContent, linesRemovedCount, originalContent, generated,
              rootAtStart, applied, runs >>
sanVars == << tS, tB, tOnce, tTwice, tPhase, tOrder, tOther >>
vars == << runVars, sanVars >>

\* fs.readdirSync(migrationsDir): the names of the immediate entries.
Entries == DOMAIN scripts \cup (IF markerPresent THEN { MarkerName } ELSE {})

\* The sanitizer variables while main() is what runs.
SanIdle ==
    /\ tS = << >> /\ tB = << >> /\ tPhase = "off"
    /\ tOnce = [content |-> << >>, count |-> 0]
    /\ tTwice = [content |-> << >>, count |-> 0]
    /\ tOrder = << >>
    /\ tOther = [content |-> << >>, count |-> 0]

\* State of the process and of the migrations root when main() is entered.
Init ==
    /\ argv \in { << >>, << << >> >>, << << "n" >> >> }
    /\ pc = "validate"
    /\ exitCode = -1
    /\ err = ""
    /\ rootExists \in BOOLEAN
    /\ markerPresent \in (IF rootExists THEN BOOLEAN ELSE { FALSE })
    /\ \E dirs \in SUBSET DirNames :
           /\ Cardinality(dirs) <= MaxPrior
           /\ rootExists \/ dirs = {}
           /\ scripts \in [dirs -> PriorScripts]
    /\ console = << >>
    /\ cmdLog = << >>
    /\ fsLog = << >>
    /\ allMigrations = << >>
    /\ latestMigrationDirName = NoName
    /\ migrationContent = << >>
    /\ linesRemovedCount = 0
    /\ originalContent = << >>
    /\ generated = NoName
    /\ rootAtStart = [exists |-> rootExists, marker |-> markerPresent,
                      scripts |-> scripts]
    /\ applied = DOMAIN scripts
    /\ runs = 1
    /\ SanIdle

\* Variant: the process ends without the exit code being set.
ExitNoCode(code, why) ==
    /\ pc' = "exit"
    /\ exitCode' = 0
    /\ err' = why

\* process.exit(code), or the rejection of main() ending the process.
Exit(code, why) ==
    /\ pc' = "exit"
    /\ exitCode' = code
    /\ err' = why

\* Variant: only an absent argument counts as missing, not an empty one.
NameUndefinedOnly == Len(argv) = 0

\* !migrationName
NameMissing == Len(argv) = 0 \/ argv[1] = << >>

\* Lines 26-30: the argument check.
Validate ==
    /\ pc = "validate"
    /\ IF NameMissing
       THEN Exit(1, "usage")
       ELSE /\ pc' = "generate"
            /\ UNCHANGED << exitCode, err >>
    /\ UNCHANGED << argv, rootExists, markerPresent, scripts, console, cmdLog,
                    fsLog, allMigrations, latestMigrationDirName,
                    migrationContent, linesRemovedCount, originalContent,
                    generated, rootAtStart,
                    applied, runs, sanVars >>

\* The status of the last command handed to execSync.
SetLastStatus(st) ==
    [cmdLog EXCEPT ![Len(cmdLog)] = [cmd |-> cmdLog[Len(cmdLog)].cmd, status |-> st]]

\* Lines 33-34 and 16-17: print step 1, start the generator.
GenerateCall ==
    /\ pc = "generate"
    /\ console' = Append(console, 1)
    /\ cmdLog' = Append(cmdLog, [cmd |-> "migrate dev --create-only", status |-> "running"])
    /\ pc' = "generating"
    /\ UNCHANGED << argv, exitCode, err, rootExists, markerPresent, scripts,
                    fsLog, allMigrations, latestMigrationDirName,
                    migrationContent, linesRemovedCount, originalContent,
                    generated, rootAtStart,
                    applied, runs, sanVars >>

\* execSync returns: the generator exited 0.  It has created one new
\* directory with a migration.sql in the root (and possibly the marker), or,
\* when it works on another directory than the one main() reads, nothing.
GenerateOk ==
    /\ pc = "generating"
    /\ cmdLog' = SetLastStatus("ok")
    /\ pc' = "locate"
    /\ \/ /\ generated' = NoName
          /\ UNCHANGED << rootExists, markerPresent, scripts >>
       \/ \E new \in DirNames \ DOMAIN scripts, content \in GenScripts,
             lock \in BOOLEAN :
             /\ generated' = new
             /\ rootExists' = TRUE
             /\ markerPresent' = (markerPresent \/ lock)
             /\ scripts' = [d \in DOMAIN scripts \cup { new } |->
                                IF d = new THEN content ELSE scripts[d]]
    /\ UNCHANGED << argv, exitCode, err, console, fsLog, allMigrations,
                    latestMigrationDirName, migrationContent,
                    linesRemovedCount, originalContent, rootAtStart,
                    applied, runs, sanVars >>

\* Variant: runCommand reports the failed generator and returns.
GenerateFailSwallowed ==
    /\ pc = "generating"
    /\ cmdLog' = [cmdLog EXCEPT ![Len(cmdLog)].status = "failed"]
    /\ pc' = "locate"
    /\ UNCHANGED << argv, exitCode, err, rootExists, markerPresent, scripts,
                    console, fsLog, allMigrations, latestMigrationDirName,
                    migrationContent, linesRemovedCount, originalContent,
                    generated, rootAtStart, applied, runs, sanVars >>

\* Lines 18-21: execSync throws (nonzero exit or spawn failure).
GenerateFail ==
    /\ pc = "generating"
    /\ cmdLog' = SetLastStatus("failed")
    /\ Exit(1, "command")
    /\ UNCHANGED << argv, rootExists, markerPresent, scripts, console, fsLog,
                    allMigrations, latestMigrationDirName, migrationContent,
                    linesRemovedCount, originalContent, generated, rootAtStart,
                    applied, runs, sanVars >>

\* Variant: offset 0, the top of the list.
LatestOfTop(all) == IF Len(all) >= 1 THEN all[1] ELSE NoName

\* Variant: offset 2.
LatestOfThird(all) == IF Len(all) >= 3 THEN all[3] ELSE NoName

\* allMigrations[1]: the entry at offset 1, undefined if there is none.
LatestOf(all) == IF Len(all) >= 2 THEN all[2] ELSE NoName

\* Lines 37-51: print step 2, list the root, sort, reverse, take offset 1.
Locate ==
    /\ pc = "locate"
    /\ console' = Append(console, 2)
    /\ fsLog' = Append(fsLog, [op |-> "readdir", dir |-> NoName])
    /\ IF ~rootExists
       THEN /\ Exit(1, "exception")
            /\ UNCHANGED << allMigrations, latestMigrationDirName >>
       ELSE LET all == Reverse(SortAsc(Entries))
            IN  /\ allMigrations' = all
                /\ latestMigrationDirName' = LatestOf(all)
                /\ IF LatestOf(all) = NoName
                   THEN Exit(1, "discovery")
                   ELSE /\ pc' = "sanitize"
                        /\ UNCHANGED << exitCode, err >>
    /\ UNCHANGED << argv, rootExists, markerPresent, scripts, cmdLog,
                    migrationContent, linesRemovedCount, originalContent,
                    generated, rootAtStart,
                    applied, runs, sanVars >>

\* Variant: the file is written back whatever the count.
ShouldWriteAlways(count) == count >= 0

\* if (linesRemovedCount > 0)
ShouldWrite(count) == count > 0

\* Variant: a failing read or write is caught and logged, and main() goes on
\* to step 4.
SanitizeFileCatching ==
    /\ pc = "sanitize"
    /\ console' = Append(console, 3)
    /\ pc' = "apply"
    /\ LET dir == latestMigrationDirName
           rd == [op |-> "read", dir |-> dir, data |-> << >>]
       IN  IF dir \notin DOMAIN scripts
           THEN /\ fsLog' = Append(fsLog, rd)
                /\ UNCHANGED << scripts, migrationContent, linesRemovedCount,
                                originalContent >>
           ELSE LET r == Sanitize(scripts[dir], linesToRemove)
                    wr == [op |-> "write", dir |-> dir, data |-> r.content]
                IN  /\ originalContent' = scripts[dir]
                    /\ migrationContent' = r.content
                    /\ linesRemovedCount' = r.count
                    /\ IF r.count > 0
                       THEN /\ fsLog' = fsLog \o << rd, wr >>
                            /\ scripts' \in { [scripts EXCEPT ![dir] = r.content],
                                              scripts,
                                              [scripts EXCEPT ![dir] = << >>] }
                       ELSE /\ fsLog' = Append(fsLog, rd)
                            /\ UNCHANGED scripts
    /\ UNCHANGED << argv, exitCode, err, rootExists, markerPresent, cmdLog,
                    allMigrations, latestMigrationDirName, generated,
                    rootAtStart, applied, runs, sanVars >>

\* Variant: every migration.sql of the root is filtered and written back,
\* not only the selected one.
SanitizeFileAllScripts ==
    /\ pc = "sanitize"
    /\ console' = Append(console, 3)
    /\ LET dir == latestMigrationDirName
           rd == [op |-> "read", dir |-> dir, data |-> << >>]
       IN  IF dir \notin DOMAIN scripts
           THEN /\ fsLog' = Append(fsLog, rd)
                /\ Exit(1, "exception")
                /\ UNCHANGED << scripts, migrationContent, linesRemovedCount,
                                originalContent >>
           ELSE LET r == Sanitize(scripts[dir], linesToRemove)
                    wr == [op |-> "write", dir |-> dir, data |-> r.content]
                IN  /\ originalContent' = scripts[dir]
                    /\ migrationContent' = r.content
                    /\ linesRemovedCount' = r.count
                    /\ fsLog' = (IF r.count > 0 THEN fsLog \o << rd, wr >>
                                 ELSE Append(fsLog, rd))
                    /\ scripts' = [d \in DOMAIN scripts |->
                                       Sanitize(scripts[d], linesToRemove).content]
                    /\ pc' = "apply"
                    /\ UNCHANGED << exitCode, err >>
    /\ UNCHANGED << argv, rootExists, markerPresent, cmdLog, allMigrations,
                    latestMigrationDirName, generated, rootAtStart, applied,
                    runs, sanVars >>

\* Lines 54-74: print step 3, read the script, filter it once per blacklist
\* entry, write it back if something was removed.  readFileSync throws when
\* the selected entry holds no migration.sql; writeFileSync may throw, leaving
\* the file as it was or truncated.
SanitizeFile ==
    /\ pc = "sanitize"
    /\ console' = Append(console, 3)
    /\ LET dir == latestMigrationDirName
           rd == [op |-> "read", dir |-> dir, data |-> << >>]
       IN  IF dir \notin DOMAIN scripts
           THEN /\ fsLog' = Append(fsLog, rd)
                /\ Exit(1, "exception")
                /\ UNCHANGED << scripts, migrationContent, linesRemovedCount,
                                originalContent >>
           ELSE LET r == Sanitize(scripts[dir], linesToRemove)
                    wr == [op |-> "write", dir |-> dir, data |-> r.content]
                IN  /\ originalContent' = scripts[dir]
                    /\ migrationContent' = r.content
                    /\ linesRemovedCount' = r.count
                    /\ IF ShouldWrite(r.count)
                       THEN /\ fsLog' = fsLog \o << rd, wr >>
                            /\ \/ /\ scripts' = [scripts EXCEPT ![dir] = r.content]
                                  /\ pc' = "apply"
                                  /\ UNCHANGED << exitCode, err >>
                               \/ /\ scripts' \in { scripts,
                                                    [scripts EXCEPT ![dir] = << >>] }
                                  /\ Exit(1, "exception")
                       ELSE /\ fsLog' = Append(fsLog, rd)
                            /\ pc' = "apply"
                            /\ UNCHANGED << scripts, exitCode, err >>
    /\ UNCHANGED << argv, rootExists, markerPresent, cmdLog, allMigrations,
                    latestMigrationDirName, generated, rootAtStart,
                    applied, runs, sanVars >>

\* Lines 77-78 and 16-17: print step 4, start the apply command.
ApplyCall ==
    /\ pc = "apply"
    /\ console' = Append(console, 4)
    /\ cmdLog' = Append(cmdLog, [cmd |-> "migrate deploy", status |-> "running"])
    /\ pc' = "applying"
    /\ UNCHANGED << argv, exitCode, err, rootExists, markerPresent, scripts,
                    fsLog, allMigrations, latestMigrationDirName,
                    migrationContent, linesRemovedCount, originalContent,
                    generated, rootAtStart,
                    applied, runs, sanVars >>

\* The migrations `prisma migrate deploy` has still to apply, in the order
\* it applies them (ascending by name).
Pending == SortAsc(DOMAIN scripts \ applied)

\* Variant: the script is saved once more after the apply command returned.
ApplyOkRewrites ==
    /\ pc = "applying"
    /\ cmdLog' = [cmdLog EXCEPT ![Len(cmdLog)].status = "ok"]
    /\ applied' = applied \cup DOMAIN scripts
    /\ fsLog' = Append(fsLog, [op |-> "write", dir |-> latestMigrationDirName,
                                data |-> migrationContent])
    /\ Exit(0, "")
    /\ UNCHANGED << argv, rootExists, markerPresent, scripts, console,
                    allMigrations, latestMigrationDirName, migrationContent,
                    linesRemovedCount, originalContent, generated, rootAtStart,
                    runs, sanVars >>

\* Variant: main() returns after the apply command, the process stays alive.
ApplyOkHangs ==
    /\ pc = "applying"
    /\ cmdLog' = [cmdLog EXCEPT ![Len(cmdLog)].status = "ok"]
    /\ applied' = applied \cup DOMAIN scripts
    /\ pc' = "returned"
    /\ UNCHANGED << argv, exitCode, err, rootExists, markerPresent, scripts,
                    console, fsLog, allMigrations, latestMigrationDirName,
                    migrationContent, linesRemovedCount, originalContent,
                    generated, rootAtStart, runs, sanVars >>

\* execSync returns: the apply command exited 0, every pending migration is
\* applied; line 80 and main() returns.
ApplyOk ==
    /\ pc = "applying"
    /\ cmdLog' = SetLastStatus("ok")
    /\ applied' = applied \cup DOMAIN scripts
    /\ Exit(0, "")
    /\ UNCHANGED << argv, rootExists, markerPresent, scripts, console, fsLog,
                    allMigrations, latestMigrationDirName, migrationContent,
                    linesRemovedCount, originalContent, generated, rootAtStart,
                    runs, sanVars >>

\* Variant: a failed apply removes the migration directory just generated.
ApplyFailRollsBack ==
    /\ pc = "applying"
    /\ cmdLog' = [cmdLog EXCEPT ![Len(cmdLog)].status = "failed"]
    /\ scripts' = [d \in DOMAIN scripts \ { generated } |-> scripts[d]]
    /\ Exit(1, "command")
    /\ UNCHANGED << argv, rootExists, markerPresent, console, fsLog,
                    allMigrations, latestMigrationDirName, migrationContent,
                    linesRemovedCount, originalContent, generated, rootAtStart,
                    applied, runs, sanVars >>

\* Lines 18-21: execSync throws for the apply command, which has applied
\* some of the pending migrations, not all of them.
ApplyFail ==
    /\ pc = "applying"
    /\ cmdLog' = SetLastStatus("failed")
    /\ \E k \in 0..(IF Len(Pending) = 0 THEN 0 ELSE Len(Pending) - 1) :
           applied' = applied \cup { Pending[i] : i \in 1..k }
    /\ Exit(1, "command")
    /\ UNCHANGED << argv, rootExists, markerPresent, scripts, console, fsLog,
                    allMigrations, latestMigrationDirName, migrationContent,
                    linesRemovedCount, originalContent, generated, rootAtStart,
                    runs, sanVars >>

Next ==
    \/ Validate
    \/ GenerateCall
    \/ GenerateOk
    \/ GenerateFail
    \/ Locate
    \/ SanitizeFile
    \/ ApplyCall
    \/ ApplyOk
    \/ ApplyFail

Spec == Init /\ [][Next]_vars

\* The run under the scheduling the code relies on: node keeps executing
\* main(), and every external command that was started returns.
SpecLive == Init /\ [][Next]_vars /\ WF_vars(Next)

\* ------------------------------------------------ the tool invoked repeatedly
\* Invocations of the tool that are followed.
MaxRuns == 2

\* A project whose migrations root holds the marker and no migration yet.
InitRuns ==
    /\ Init
    /\ rootExists /\ markerPresent
    /\ scripts = << >>

\* The tool is started again after the previous process has ended: main()
\* is entered with fresh locals, on the migrations root and the database as
\* the earlier runs left them.
Reinvoke ==
    /\ pc = "exit"
    /\ runs < MaxRuns
    /\ runs' = runs + 1
    /\ argv' \in { << >>, << << >> >>, << << "n" >> >> }
    /\ pc' = "validate"
    /\ exitCode' = -1
    /\ err' = ""
    /\ console' = << >>
    /\ cmdLog' = << >>
    /\ fsLog' = << >>
    /\ allMigrations' = << >>
    /\ latestMigrationDirName' = NoName
    /\ migrationContent' = << >>
    /\ linesRemovedCount' = 0
    /\ originalContent' = << >>
    /\ generated' = NoName
    /\ rootAtStart' = [exists |-> rootExists, marker |-> markerPresent,
                       scripts |-> scripts]
    /\ UNCHANGED << rootExists, markerPresent, scripts, applied, sanVars >>

NextRuns ==
    \/ Next
    \/ Reinvoke

SpecRuns == InitRuns /\ [][NextRuns]_vars

\* ------------------------------------------- the sanitizer on drawn inputs
\* Characters of a script: two letters, carriage return, line feed.
Chars == { "D", "x", "\r", "\n" }

\* Blacklist entries: non-empty texts without a line break.
EntryPool == { << "D" >>, << "x" >>, << "D", "x" >> }

\* The process is not running while the sanitizer is exercised on its own.
RunIdle ==
    /\ argv = << >> /\ pc = "off" /\ exitCode = -1 /\ err = ""
    /\ rootExists = FALSE /\ markerPresent = FALSE /\ scripts = << >>
    /\ console = << >> /\ cmdLog = << >> /\ fsLog = << >>
    /\ allMigrations = << >> /\ latestMigrationDirName = NoName
    /\ migrationContent = << >> /\ linesRemovedCount = 0
    /\ originalContent = << >> /\ generated = NoName
    /\ rootAtStart = [exists |-> FALSE, marker |-> FALSE, scripts |-> << >>]
    /\ applied = {} /\ runs = 0

InitSan ==
    /\ RunIdle
    /\ tS \in SeqsUpTo(Chars, MaxLen)
    /\ tB \in SeqsUpTo(EntryPool, MaxEntries) \ { << >> }
    /\ tPhase = "input"
    /\ tOnce = [content |-> << >>, count |-> 0]
    /\ tTwice = [content |-> << >>, count |-> 0]
    /\ tOrder = << >>
    /\ tOther = [content |-> << >>, count |-> 0]

\* Lines 55-67 on the drawn script and blacklist.
SanitizeOnce ==
    /\ tPhase = "input"
    /\ tOnce' = Sanitize(tS, tB)
    /\ tPhase' = "once"
    /\ UNCHANGED << tS, tB, tTwice, tOrder, tOther, runVars >>

\* Lines 55-67 again, on the result of the first pass.
SanitizeAgain ==
    /\ tPhase = "once"
    /\ tTwice' = Sanitize(tOnce.content, tB)
    /\ tPhase' = "twice"
    /\ UNCHANGED << tS, tB, tOnce, tOrder, tOther, runVars >>

NextSan ==
    \/ SanitizeOnce
    \/ SanitizeAgain

SpecSan == InitSan /\ [][NextSan]_vars

\* ------------------------------------- the sanitizer on a reordered blacklist
\* The orderings of a blacklist: the same entries, array order permuted.
Orderings(blacklist) ==
    { [i \in 1..Len(blacklist) |-> blacklist[p[i]]] :
          p \in Permutations(1..Len(blacklist)) }

\* Lines 55-67 on the drawn script, once with the blacklist as drawn and
\* once with the same entries in another order.
SanitizeReordered ==
    /\ tPhase = "input"
    /\ \E order \in Orderings(tB) :
           /\ tOrder' = order
           /\ tOther' = Sanitize(tS, order)
    /\ tOnce' = Sanitize(tS, tB)
    /\ tPhase' = "ordered"
    /\ UNCHANGED << tS, tB, tTwice, runVars >>

NextOrder == SanitizeReordered

SpecOrder == InitSan /\ [][NextOrder]_vars

\* ================================================================ properties
\* A line is clean for a blacklist when it contains none of its entries.
Clean(line, blacklist) ==
    \A i \in 1..Len(blacklist) : ~Includes(line, blacklist[i])

\* Every line of a text is clean.
CleanText(content, blacklist) ==
    \A i \in 1..Len(Split(content)) : Clean(Split(content)[i], blacklist)

\* The lines of a text that survive a single filter by the whole blacklist.
KeptLines(content, blacklist) ==
    SelectSeq(Split(content), LAMBDA line : Clean(line, blacklist))

ApplyInvoked == \E i \in 1..Len(cmdLog) : cmdLog[i].cmd = "migrate deploy"
GeneratorStatus == IF Len(cmdLog) >= 1 THEN cmdLog[1].status ELSE "none"
WritesDone == { i \in 1..Len(fsLog) : fsLog[i].op = "write" }
ReadsDone == { i \in 1..Len(fsLog) : fsLog[i].op = "read" }
IsPrefix(p, q) == Len(p) <= Len(q) /\ SubSeq(q, 1, Len(p)) = p

\* C1: whenever the apply command has been invoked, the script located by
\* this run exists and none of its lines contains a configured blacklist
\* entry.
ApplyOnlyOnCleanScript ==
    ApplyInvoked =>
        /\ latestMigrationDirName \in DOMAIN scripts
        /\ CleanText(scripts[latestMigrationDirName], linesToRemove)

\* C1 witness: apply is running after lines were removed from the script.
ApplyAfterRemovalReached ==
    /\ pc = "applying"
    /\ linesRemovedCount > 0
    /\ ~CleanText(originalContent, linesToRemove)

\* C2: the steps start in the order 1, 2, 3, 4, each at most once and only
\* after the previous phase succeeded; each command is run at most once and
\* the script is written at most once.
PhasesInOrder ==
    /\ IsPrefix(console, << 1, 2, 3, 4 >>)
    /\ IsPrefix([i \in 1..Len(cmdLog) |-> cmdLog[i].cmd],
                << "migrate dev --create-only", "migrate deploy" >>)
    /\ Cardinality(WritesDone) <= 1
    /\ Cardinality(ReadsDone) <= 1
    /\ (Len(console) >= 1 => Len(argv) = 1 /\ argv[1] # << >>)
    /\ (Len(console) >= 2 => GeneratorStatus = "ok")
    /\ (Len(console) >= 3 => latestMigrationDirName \in Entries)
    /\ (Len(console) >= 4 =>
            /\ latestMigrationDirName \in DOMAIN scripts
            /\ scripts[latestMigrationDirName] = migrationContent
            /\ Cardinality(ReadsDone) = 1)
    /\ (Len(cmdLog) = 2 => Len(console) = 4)
    /\ (WritesDone # {} => Len(console) = 3 \/ Len(cmdLog) = 2)

\* C2 witness: a run that went through all four phases, with a write.
AllPhasesReached ==
    /\ pc = "exit" /\ exitCode = 0
    /\ console = << 1, 2, 3, 4 >>
    /\ WritesDone # {}

\* C3: once the generator has failed, the run has ended with exit code 1,
\* only step 1 was started, no fs call was made and no other command run.
GeneratorFailureStops ==
    GeneratorStatus = "failed" =>
        /\ pc = "exit" /\ exitCode = 1
        /\ console = << 1 >>
        /\ fsLog = << >>
        /\ Len(cmdLog) = 1
        /\ latestMigrationDirName = NoName

\* C3 witness: the run ended because the generator failed.
GeneratorFailedReached ==
    pc = "exit" /\ GeneratorStatus = "failed" /\ err = "command"

\* C4: with no migration name, or an empty one, the run can only end with
\* the usage error and exit code 1; no command is run, no fs call is made.
MissingNameStops ==
    (argv = << >> \/ argv = << << >> >>) =>
        /\ pc \in { "validate", "exit" }
        /\ (pc = "exit" => exitCode = 1 /\ err = "usage")
        /\ cmdLog = << >> /\ fsLog = << >> /\ console = << >>
        /\ scripts = rootAtStart.scripts

\* C4 witness: the run ended on an empty migration name.
EmptyNameRejectedReached ==
    pc = "exit" /\ argv = << << >> >> /\ err = "usage"

\* C5: after a successful Generate, a root that is missing or holds fewer
\* than two entries ends the run with exit code 1 at the Locator: step 3 and
\* step 4 never start, no script is read or written, apply is not run.
DiscoveryFailureStops ==
    (GeneratorStatus = "ok" /\ (~rootExists \/ Cardinality(Entries) < 2)) =>
        /\ pc \in { "locate", "exit" }
        /\ (pc = "exit" => exitCode = 1 /\ err \in { "discovery", "exception" })
        /\ IsPrefix(console, << 1, 2 >>)
        /\ Len(cmdLog) = 1
        /\ WritesDone = {} /\ ReadsDone = {}

\* C5 witness: the run ended at the Locator on a root with a single entry.
SingleEntryRootRejectedReached ==
    /\ pc = "exit" /\ err = "discovery"
    /\ rootExists /\ Cardinality(Entries) = 1

\* C6: the loop over the blacklist leaves exactly the lines of the script
\* that contain no entry, in their original order, and counts every line
\* that contains at least one entry exactly once.
SanitizeIsFilter ==
    tPhase # "input" =>
        LET lines == Split(tS)
            kept == KeptLines(tS, tB)
            matching == { i \in 1..Len(lines) : ~Clean(lines[i], tB) }
        IN  /\ tOnce.content = Join(kept)
            /\ tOnce.count = Cardinality(matching)
            /\ tOnce.count = Len(lines) - Len(kept)

\* C6 witness: one removed line contains two entries of the blacklist, and
\* a line is kept.
LineMatchingTwoEntriesReached ==
    /\ tPhase = "once"
    /\ tOnce.count = 1
    /\ tOnce.content # << >>
    /\ \E i \in 1..Len(Split(tS)), j, k \in 1..Len(tB) :
           /\ tB[j] # tB[k]
           /\ Includes(Split(tS)[i], tB[j])
           /\ Includes(Split(tS)[i], tB[k])

\* C7: sanitizing the sanitized script again changes nothing, removes no
\* line and so does not write the file.
SanitizeIdempotent ==
    tPhase = "twice" =>
        /\ tTwice.content = tOnce.content
        /\ tTwice.count = 0
        /\ ~ShouldWrite(tTwice.count)

\* C7 witness: a second pass after a first pass that removed lines and kept
\* some.
SecondPassReached ==
    /\ tPhase = "twice"
    /\ tOnce.count >= 2
    /\ tOnce.content # << >>

\* C8: once the script has been read, a write was issued exactly if lines
\* were removed, exactly if some line of the script as read contains an
\* entry; a clean script is left as it was with count 0; otherwise the data
\* written is the filtered content, and it is the content of the file when
\* the write did not fail.
WriteIffRemoved ==
    (Len(console) >= 3 /\ ReadsDone # {} /\ latestMigrationDirName \in DOMAIN scripts) =>
        LET dirty == ~CleanText(originalContent, linesToRemove)
            filtered == Join(KeptLines(originalContent, linesToRemove))
        IN  /\ (WritesDone # {}) <=> (linesRemovedCount > 0)
            /\ (WritesDone # {}) <=> dirty
            /\ ~dirty =>
                   /\ migrationContent = originalContent
                   /\ linesRemovedCount = 0
                   /\ scripts[latestMigrationDirName] = originalContent
            /\ dirty =>
                   /\ \A i \in WritesDone :
                          /\ fsLog[i].dir = latestMigrationDirName
                          /\ fsLog[i].data = filtered
                   /\ (err # "exception" =>
                          scripts[latestMigrationDirName] = filtered)

\* C8 witness: the script was overwritten with a shorter, non-empty content.
ScriptRewrittenReached ==
    /\ pc = "apply"
    /\ WritesDone # {}
    /\ scripts[latestMigrationDirName] # originalContent
    /\ scripts[latestMigrationDirName] # << >>

\* The layout the Locator relies on: the marker is present and every other
\* entry sorts before it.
Layout(entries) ==
    /\ MarkerName \in entries
    /\ \A d \in entries \ { MarkerName } : LexLess(d, MarkerName)

\* C9: the selected entry is the one with exactly one entry sorting after
\* it; under the layout, with at least one migration directory, it is the
\* greatest migration directory and not the marker; the script read and
\* written is the migration.sql of the selected entry.
LocatorSelectsSecondGreatest ==
    latestMigrationDirName # NoName =>
        /\ latestMigrationDirName \in Entries
        /\ Cardinality({ e \in Entries : LexLess(latestMigrationDirName, e) }) = 1
        /\ \A i \in 1..(Len(allMigrations) - 1) :
               LexLess(allMigrations[i + 1], allMigrations[i])
        /\ { allMigrations[i] : i \in 1..Len(allMigrations) } = Entries
        /\ (Layout(Entries) =>
               /\ latestMigrationDirName \in DOMAIN scripts
               /\ latestMigrationDirName # MarkerName
               /\ \A d \in DOMAIN scripts :
                      d = latestMigrationDirName \/ LexLess(d, latestMigrationDirName))
        /\ \A i \in WritesDone \cup ReadsDone :
               fsLog[i].dir = latestMigrationDirName

\* C9 witness: the script of the greatest of three migration directories
\* has been read, the marker being in place.
GreatestOfThreeSelectedReached ==
    /\ pc = "apply"
    /\ Layout(Entries)
    /\ Cardinality(DOMAIN scripts) = 3
    /\ ReadsDone # {}

\* C10 as stated: under the layout (before and after Generate) and a
\* generator that added one directory, the located script is the generated
\* one.
RootEntriesAtStart ==
    DOMAIN rootAtStart.scripts \cup
        (IF rootAtStart.marker THEN { MarkerName } ELSE {})

AllPhasesSucceeded ==
    /\ Len(argv) = 1 /\ argv[1] # << >>
    /\ console = << 1, 2, 3, 4 >>
    /\ Len(cmdLog) = 2
    /\ cmdLog[1].status = "ok" /\ cmdLog[2].status = "ok"
    /\ latestMigrationDirName \in DOMAIN scripts
    /\ scripts[latestMigrationDirName] = migrationContent

\* A read or a write of the selected script failed in step 3: the entry has
\* no migration.sql, or the file does not hold the data handed to the write.
SanitizeIOFailed ==
    /\ Len(console) >= 3
    /\ \/ latestMigrationDirName \notin DOMAIN scripts
       \/ \E i \in WritesDone : scripts[latestMigrationDirName] # fsLog[i].data

\* C12: a run that has ended has exit code 0 or 1, 0 exactly when all four
\* phases succeeded; a missing name, a failed generator, a discovery failure,
\* a failed read or write of the script and a failed apply all give 1.
ExitCodeReflectsOutcome ==
    pc = "exit" =>
        /\ exitCode \in { 0, 1 }
        /\ (exitCode = 0 <=> AllPhasesSucceeded)
        /\ ((argv = << >> \/ argv = << << >> >>) => exitCode = 1)
        /\ ((\E i \in 1..Len(cmdLog) : cmdLog[i].status = "failed") => exitCode = 1)
        /\ ((Len(console) = 2) => exitCode = 1)
        /\ (SanitizeIOFailed => exitCode = 1)

\* C12 witness: the run ended with exit code 1 because the selected entry
\* holds no migration.sql to read.
ReadFailureExitReached ==
    /\ pc = "exit" /\ exitCode = 1
    /\ ReadsDone # {}
    /\ latestMigrationDirName \notin DOMAIN scripts

\* C13: after a failed read or write in step 3 the run has ended with the
\* uncaught exception; step 4 was not started, the apply command was not
\* run and neither the read nor the write was repeated.
SanitizeIOFailureAborts ==
    SanitizeIOFailed =>
        /\ pc = "exit" /\ exitCode = 1 /\ err = "exception"
        /\ console = << 1, 2, 3 >>
        /\ ~ApplyInvoked
        /\ Len(cmdLog) = 1
        /\ Cardinality(ReadsDone) = 1
        /\ Cardinality(WritesDone) <= 1

\* C13 witness: the write failed and left the script as it was.
WriteFailureReached ==
    /\ pc = "exit" /\ err = "exception"
    /\ WritesDone # {}
    /\ scripts[latestMigrationDirName] = originalContent

\* C14: in a run the script is written at most once, and from the step that
\* starts the apply command on, no write is issued and no script changes.
NoWriteOnceApplyStarted ==
    [][/\ Cardinality(WritesDone') <= 1
       /\ (ApplyInvoked' => (WritesDone' = WritesDone /\ scripts' = scripts))]_vars

\* C14 witness: the apply command returned after the script had been
\* rewritten in step 3.
AppliedAfterOneWriteReached ==
    /\ pc = "exit"
    /\ Len(cmdLog) = 2
    /\ Cardinality(WritesDone) = 1
    /\ linesRemovedCount >= 2

\* C16: once the apply command has failed, the run has ended with exit code
\* 1, the command was run once, the generated directory is still there with
\* the others, and the selected script holds the sanitized content.
ApplyFailureKeepsEffects ==
    (Len(cmdLog) = 2 /\ cmdLog[2].status = "failed") =>
        /\ pc = "exit" /\ exitCode = 1 /\ err = "command"
        /\ console = << 1, 2, 3, 4 >>
        /\ (generated # NoName => generated \in DOMAIN scripts)
        /\ DOMAIN rootAtStart.scripts \subseteq DOMAIN scripts
        /\ scripts[latestMigrationDirName] = migrationContent
        /\ CleanText(scripts[latestMigrationDirName], linesToRemove)

\* C16 witness: apply failed after the generated script had been rewritten.
ApplyFailedAfterRewriteReached ==
    /\ pc = "exit" /\ err = "command"
    /\ Len(cmdLog) = 2
    /\ latestMigrationDirName = generated
    /\ WritesDone # {}

\* C17: under the fairness of SpecLive every run reaches a terminal state,
\* exit code 0 or 1, and stays there.
RunTerminates == <>[](pc = "exit" /\ exitCode \in { 0, 1 })

\* C17 witness: a run that ended in success without rewriting the script.
CleanSuccessReached ==
    /\ pc = "exit" /\ exitCode = 0
    /\ WritesDone = {}
    /\ generated # NoName

\* C19: every write goes to the migration.sql of the selected entry, and
\* the steps of the locate and sanitize phases leave the root, the marker,
\* the set of entries and every other script as they were.
OnlyLocatedScriptWritten ==
    [][/\ \A i \in WritesDone' : fsLog'[i].dir = latestMigrationDirName'
       /\ (pc \in { "locate", "sanitize" } =>
              /\ rootExists' = rootExists
              /\ markerPresent' = markerPresent
              /\ DOMAIN scripts' = DOMAIN scripts
              /\ \A d \in DOMAIN scripts :
                     d # latestMigrationDirName' => scripts'[d] = scripts[d])]_vars

\* C19 witness: the selected script was rewritten while another script of
\* the root still holds a blacklisted line.
OtherDirtyScriptLeftReached ==
    /\ pc = "apply"
    /\ WritesDone # {}
    /\ \E d \in DOMAIN scripts \ { latestMigrationDirName } :
           ~CleanText(scripts[d], linesToRemove)

\* The terminated lines of a file: the text before each line feed is a line
\* ended by "LF", or by "CRLF" when a carriage return precedes the line
\* feed; text after the last line feed is a line with no terminator.
TermLines(content) ==
    LET pieces == Split(content)
        n == Len(pieces)
        Line(i) ==
            IF i = n THEN [body |-> pieces[i], term |-> "none"]
            ELSE IF Len(pieces[i]) > 0 /\ pieces[i][Len(pieces[i])] = "\r"
            THEN [body |-> SubSeq(pieces[i], 1, Len(pieces[i]) - 1), term |-> "CRLF"]
            ELSE [body |-> pieces[i], term |-> "LF"]
        m == IF pieces[n] = << >> THEN n - 1 ELSE n
    IN  [i \in 1..m |-> Line(i)]

\* C15: when the sanitizer rewrites the script, the rewritten file consists
\* of the retained lines of the original, each with the terminator (LF,
\* CRLF or none) it had there.
RewriteKeepsLineEndings ==
    (tPhase # "input" /\ tOnce.count > 0) =>
        TermLines(tOnce.content) =
            SelectSeq(TermLines(tS), LAMBDA l : Clean(l.body, tB))

\* C18: sanitizing a script with the same blacklist entries in another
\* order gives the same filtered line sequence and the same total count.
SanitizeOrderIndependent ==
    tPhase = "ordered" =>
        /\ Split(tOther.content) = Split(tOnce.content)
        /\ tOther.content = tOnce.content
        /\ tOther.count = tOnce.count

\* C18 witness: two different orders of two entries, both contained in one
\* line of a script from which two or more lines are removed.
OverlappingEntriesReorderedReached ==
    /\ tPhase = "ordered"
    /\ tOrder # tB
    /\ tOnce.count >= 2
    /\ \E i \in 1..Len(Split(tS)) :
           \A j \in 1..Len(tB) : Includes(Split(tS)[i], tB[j])

\* The migrations the apply command has to apply: in the root, not yet
\* recorded by the database.
PendingScripts == DOMAIN scripts \ applied

\* C11: whenever the apply command has been invoked, in any run of any
\* sequence of invocations, every pending migration script is clean.
PendingCleanWhenApplied ==
    ApplyInvoked =>
        \A d \in PendingScripts : CleanText(scripts[d], linesToRemove)

====
